---- MODULE Spec2Model ----
(***************************************************************************)
(* A model of packages/stook-graphql/src/Client.ts: the Client's shared    *)
(* Context, its middleware pipeline (koa-compose), query, and the hooks    *)
(* useQuery / useMutate / useSubscribe and fromSubscription built on it.   *)
(*                                                                         *)
(* JavaScript runs one callback at a time.  Every action below is one such *)
(* callback, run to its next suspension point: a call made by the          *)
(* application, the settling of a transport call, the resumption of a      *)
(* middleware stage after an await, a channel event.                       *)
(***************************************************************************)
EXTENDS Integers, Sequences, FiniteSets, TLC

VARIABLES
    graphqlOptions,      \* this.graphqlOptions
    graphqlClient,       \* this.graphqlClient: the query transport in use
    subscriptionClient,  \* this.subscriptionClient, or NULL_AS
    middleware,          \* this.middleware
    ctx,                 \* this.ctx: the one Context of the Client
    ops,                 \* the pipeline runs in flight
    started,             \* the number of pipeline runs started so far
    last,                \* the call of the application (query, refetch) that settled last
    consumers,           \* the hook instances mounted so far
    store,               \* stook's store: name -> state
    fetcher,             \* the fetcher registry: name -> refetch handle
    raw,                 \* the calls of fromSubscription made so far
    requests             \* the requests made on the subscription channel

client == <<graphqlOptions, graphqlClient, subscriptionClient>>
hooks == <<consumers, store, fetcher>>
channel == <<raw, requests>>
runs == <<ops, started, last>>
vars == <<graphqlOptions, graphqlClient, subscriptionClient, middleware, ctx,
          ops, started, last, consumers, store, fetcher, raw, requests>>

(* Bounds of the model. *)
MaxRuns == 2       \* pipeline runs started, where the hooks are not used
MaxStages == 2     \* middleware stages registered
MaxOps == 3        \* pipeline runs started, where the hooks are used
MaxConsumers == 2  \* hook instances mounted
MaxRaw == 2        \* calls of fromSubscription

(* Values.  A value is a pair <<tag, n>>; the transport's answer to the    *)
(* query of run i is Data(i) or Err(i), so that every run's own outcome is *)
(* distinguishable from every other run's.                                 *)
Undefined == <<"undefined", 0>>
Data(i) == <<"data", i>>
Err(i) == <<"error", i>>
StageErr(id) == <<"stage-error", id>>
Substitute == <<"substitute", 0>>

NULL_AS == <<"null">>

(* What a registered middleware function does.  Each is                    *)
(*   async (ctx, next) => { before; await next(); after }                  *)
(*  pass    : nothing before, nothing after                                *)
(*  defer   : awaits something of its own before calling next              *)
(*  throw   : throws before calling next                                   *)
(*  recover : after next, if !ctx.valid sets ctx.valid = true and          *)
(*            ctx.body = a substitute                                      *)
StageKinds == {"pass", "defer", "throw", "recover"}

CallsNext(kind) == kind # "throw"

ClientCtx == [body |-> Undefined, headers |-> <<>>, valid |-> TRUE]

(* The options of the constructor and of config.  endpoint and headers    *)
(* are always given; subscriptionsEndpoint is optional.                    *)
Endpoints == {"/graphql", "/api"}
NoEndpoint == ""
SubscriptionsEndpoints == {NoEndpoint, "ws://a", "ws://b"}
GraphqlOptions == [endpoint : Endpoints, subscriptionsEndpoint : SubscriptionsEndpoints]
DefaultOptions == [endpoint |-> "/graphql", subscriptionsEndpoint |-> NoEndpoint]

GraphQLClient(endpoint) == <<"GraphQLClient", endpoint>>
SubscriptionClient(url) == <<"SubscriptionClient", url>>

Inputs == {"q1", "q2"}
NoKey == "undefined"
Keys == {NoKey, "k1"}
Names == Inputs \cup (Keys \ {NoKey})

(* A pipeline run: compose([...this.middleware, action])(this.ctx).        *)
(*  id     the number of the run, in the order of the calls                *)
(*  kind   "query" | "next" | "error": which terminal action it ends in     *)
(*  owner  the hook instance that started it, 0 for the application        *)
(*  chain  the copy [...this.middleware] taken at the call                 *)
(*  pc     "deferred": stage idx is suspended before its call of next      *)
(*         "transport": the terminal action awaits the transport           *)
(*         "out": the promise stage idx awaits has settled (idx = 0:       *)
(*                the promise of the whole run has settled)                *)
(*         "done": the caller's continuation has run                       *)
(*  thrown the error the chain is rejecting with, or Undefined             *)
(*  trace  the stages entered and resumed and the terminal action, in      *)
(*         order; calls: the transport calls made                          *)
(*  outcome the transport's answer; result: how the query call settled     *)
(*  alone  no other run was in flight at any time during this run          *)
NewOp(id, kind, owner, origin, chain) ==
    [id |-> id, kind |-> kind, owner |-> owner, origin |-> origin, chain |-> chain,
     pc |-> "start", idx |-> 0, thrown |-> Undefined, trace |-> <<>>,
     calls |-> 0, outcome |-> Undefined, result |-> <<"pending", Undefined>>,
     alone |-> TRUE]

NoRun == NewOp(0, "none", 0, "none", <<>>)

(* constructor(opt) (47-60), with the field initialisers (36-45).          *)
Construct(opt) ==
    /\ graphqlOptions = opt
    /\ graphqlClient = GraphQLClient(opt.endpoint)
    /\ subscriptionClient =
          IF opt.subscriptionsEndpoint # NoEndpoint
          THEN SubscriptionClient(opt.subscriptionsEndpoint) ELSE NULL_AS
    /\ middleware = <<>>
    /\ ctx = ClientCtx
    /\ ops = <<>>
    /\ started = 0
    /\ last = NoRun
    /\ consumers = <<>>
    /\ store = <<>>
    /\ fetcher = [k \in Names |-> 0]
    /\ raw = <<>>
    /\ requests = 0

Init == Construct(DefaultOptions)

InitAny == \E opt \in GraphqlOptions : Construct(opt)

(* new Client(opt) with a subscriptionsEndpoint *)
SubscribedOptions == [endpoint |-> "/graphql", subscriptionsEndpoint |-> "ws://a"]

InitSubscribed == Construct(SubscribedOptions)

(* config(opt) (62-76): the options are merged, the query transport is    *)
(* built anew, and a subscription client is built only if opt supplies a   *)
(* subscriptionsEndpoint.                                                  *)
MergeOptions(old, opt) ==
    [endpoint |-> opt.endpoint,
     subscriptionsEndpoint |->
        IF opt.subscriptionsEndpoint = NoEndpoint THEN old.subscriptionsEndpoint
        ELSE opt.subscriptionsEndpoint]

ConfigSubscriptionClient(old, opt) ==
    IF opt.subscriptionsEndpoint # NoEndpoint
    THEN SubscriptionClient(opt.subscriptionsEndpoint) ELSE old

Config(opt) ==
    /\ graphqlOptions' = MergeOptions(graphqlOptions, opt)
    /\ graphqlClient' = GraphQLClient(opt.endpoint)
    /\ subscriptionClient' = ConfigSubscriptionClient(subscriptionClient, opt)
    /\ UNCHANGED <<middleware, ctx, runs, hooks, channel>>

(* applyMiddleware: this.middleware.push(fn).  A stage carries the number  *)
(* of its registration as its identity.                                    *)
Unshift(list, fn) == <<fn>> \o list

Push(list, fn) == Append(list, fn)

ApplyMiddleware(kind) ==
    /\ Len(middleware) < MaxStages
    /\ middleware' = Push(middleware, [id |-> Len(middleware) + 1, kind |-> kind])
    /\ UNCHANGED <<client, ctx, runs, hooks, channel>>

Chain(list) == list

(* The terminal action of a run, called by dispatch(chain.length).          *)
(*  query (84-93): calls the transport and awaits it                       *)
(*  next (219-221): ctx.body = data                                        *)
(*  error (227-230): ctx.body = error; ctx.valid = false                   *)
TerminalAction(o, c) ==
    LET t == [o EXCEPT !.trace = Append(@, <<"action", 0>>)] IN
    CASE o.kind = "query" ->
           [op |-> [t EXCEPT !.pc = "transport", !.calls = @ + 1], ctx |-> c]
      [] o.kind = "next" ->
           [op |-> [t EXCEPT !.pc = "out", !.idx = Len(o.chain)],
            ctx |-> [c EXCEPT !.body = <<"event", o.id>>]]
      [] o.kind = "error" ->
           [op |-> [t EXCEPT !.pc = "out", !.idx = Len(o.chain)],
            ctx |-> [c EXCEPT !.body = <<"channel-error", o.id>>, !.valid = FALSE]]

(* koa-compose's dispatch(i), 1-based: runs stage i up to its first        *)
(* suspension; a stage that calls next() without awaiting anything first   *)
(* runs dispatch(i + 1) in the same callback.                              *)
RECURSIVE Dispatch(_, _, _)
Dispatch(o, c, i) ==
    IF i > Len(o.chain) THEN TerminalAction(o, c)
    ELSE LET st == o.chain[i]
             entered == [o EXCEPT !.trace = Append(@, <<"in", st.id>>)]
         IN CASE st.kind = "defer" ->
                   [op |-> [entered EXCEPT !.pc = "deferred", !.idx = i], ctx |-> c]
              [] st.kind = "throw" ->
                   [op |-> [entered EXCEPT !.pc = "out", !.idx = i - 1,
                                           !.thrown = StageErr(st.id)],
                    ctx |-> c]
              [] OTHER -> Dispatch(entered, c, i + 1)

(* Starting a run while others are in flight: none of them is alone.       *)
Overlap(list) == [j \in 1..Len(list) |-> [list[j] EXCEPT !.alone = FALSE]]

StartRun(max, kind, owner, origin) ==
    LET fresh == [NewOp(started + 1, kind, owner, origin, Chain(middleware))
                     EXCEPT !.alone = (ops = <<>>)]
        r == Dispatch(fresh, ctx, 1)
    IN /\ started < max
       /\ started' = started + 1
       /\ ops' = Append(Overlap(ops), r.op)
       /\ ctx' = r.ctx
       /\ last' = last

(* query(input, options), called by the application itself (82-95).        *)
Query(max) ==
    /\ StartRun(max, "query", 0, "call")
    /\ UNCHANGED <<client, middleware, hooks, channel>>

(* A deferred stage's own await is over: it calls next().                  *)
Resume(i) ==
    /\ i \in 1..Len(ops)
    /\ ops[i].pc = "deferred"
    /\ LET r == Dispatch(ops[i], ctx, ops[i].idx + 1)
       IN /\ ops' = [ops EXCEPT ![i] = r.op]
          /\ ctx' = r.ctx
    /\ UNCHANGED <<client, middleware, started, last, hooks, channel>>

(* The transport call settles (86-92): ctx.body = the answer, or           *)
(* ctx.body = error; ctx.valid = false.                                    *)
ActionSettles(c, self, ok) ==
    IF ok THEN [c EXCEPT !.body = Data(self)]
    ELSE [c EXCEPT !.body = Err(self), !.valid = FALSE]

TransportSettleRetrying(i, ok) ==
    /\ i \in 1..Len(ops)
    /\ ops[i].pc = "transport"
    /\ ctx' = ActionSettles(ctx, ops[i].id, ok)
    /\ ops' = IF ok
              THEN [ops EXCEPT ![i].pc = "out", ![i].idx = Len(ops[i].chain),
                               ![i].outcome = Data(ops[i].id)]
              ELSE [ops EXCEPT ![i].calls = @ + 1]
    /\ UNCHANGED <<client, middleware, started, last, hooks, channel>>

TransportSettle(i, ok) ==
    /\ i \in 1..Len(ops)
    /\ ops[i].pc = "transport"
    /\ ctx' = ActionSettles(ctx, ops[i].id, ok)
    /\ ops' = [ops EXCEPT ![i].pc = "out", ![i].idx = Len(ops[i].chain),
                          ![i].outcome = IF ok THEN Data(ops[i].id) ELSE Err(ops[i].id)]
    /\ UNCHANGED <<client, middleware, started, last, hooks, channel>>

(* Stage idx resumes after its await next().  A rejection passes through   *)
(* it; otherwise its after-next code runs.                                 *)
AfterNextKeepsBody(st, c) ==
    IF st.kind = "recover" /\ ~c.valid THEN [c EXCEPT !.valid = TRUE] ELSE c

AfterNext(st, c) ==
    IF st.kind = "recover" /\ ~c.valid
    THEN [c EXCEPT !.valid = TRUE, !.body = Substitute]
    ELSE c

StepOut(i) ==
    /\ i \in 1..Len(ops)
    /\ ops[i].pc = "out"
    /\ ops[i].idx >= 1
    /\ LET o == ops[i]
           st == o.chain[o.idx]
       IN IF o.thrown # Undefined
          THEN /\ ops' = [ops EXCEPT ![i].idx = @ - 1]
               /\ ctx' = ctx
          ELSE /\ ops' = [ops EXCEPT ![i].idx = @ - 1,
                                     ![i].trace = Append(@, <<"out", st.id>>)]
               /\ ctx' = AfterNext(st, ctx)
    /\ UNCHANGED <<client, middleware, started, last, hooks, channel>>

(* query after `await compose(...)(this.ctx)` (95-98): a rejected chain    *)
(* rejects the call; otherwise                                             *)
(*   if (!this.ctx.valid) throw this.ctx.body; return this.ctx.body        *)
QueryReturnIgnoresThrown(o, c) ==
    IF ~c.valid THEN <<"rejected", c.body>> ELSE <<"resolved", c.body>>

QueryReturn(o, c) ==
    IF o.thrown # Undefined THEN <<"rejected", o.thrown>>
    ELSE IF ~c.valid THEN <<"rejected", c.body>>
    ELSE <<"resolved", c.body>>

(***************************************************************************)
(* The hooks.  A consumer is one mounted instance of a hook: the closure   *)
(* of the render whose effect ran.                                         *)
(*  name      fetcherName (useQuery, useMutate)                            *)
(*  unmounted the closure's flag, set by the effect's cleanup              *)
(*  result    the state the instance renders: what the store last gave it  *)
(*            (useQuery, useMutate) or its own useState (useSubscribe);    *)
(*            NotRendered once React has unmounted it                      *)
(*  late      the calls of onUpdate made by this instance after its        *)
(*            cleanup ran                                                  *)
(*  sub       useSubscribe: "none" | "active" | "closed", its subscription *)
(*            on the channel                                               *)
(***************************************************************************)
State(loading, data, error) == [loading |-> loading, data |-> data, error |-> error]

NotRendered == State(FALSE, <<"not rendered", 0>>, Undefined)

InitialData(c) == <<"initial", c>>

(* const fetcherName = options.key || input (103, 149) *)
FetcherNameIsInput(key, input) == input

FetcherName(key, input) == IF key # NoKey THEN key ELSE input

(* stook's useStore(name, initialState): the entry is created with         *)
(* initialState if there is none; the current state is returned.           *)
Has(st, name) == name \in DOMAIN st

GetOrInit(st, name, initialState) ==
    IF Has(st, name) THEN st ELSE (name :> initialState) @@ st

(* stook's setState: replaces the state of the entry and hands it to every *)
(* instance that reads the entry and is still mounted.                     *)
StoreSet(st, name, next) == (name :> next) @@ st

Readers(cs, name) ==
    {d \in 1..Len(cs) : /\ cs[d].hook \in {"useQuery", "useMutate"}
                        /\ cs[d].name = name
                        /\ ~cs[d].unmounted}

Notify(cs, name, next) ==
    [d \in 1..Len(cs) |->
        IF d \in Readers(cs, name) THEN [cs[d] EXCEPT !.result = next] ELSE cs[d]]

NewConsumer(hook, input, key, name, result) ==
    [hook |-> hook, input |-> input, key |-> key, name |-> name,
     unmounted |-> FALSE, result |-> result, late |-> 0, sub |-> "none"]

(* onUpdate && onUpdate(nextState) (111, 154, 187) *)
OnUpdate(cs, c) ==
    [cs EXCEPT ![c].late = @ + (IF cs[c].unmounted THEN 1 ELSE 0)]

(* update(nextState) of instance c (109-112, 152-155, 185-188):            *)
(* setState(nextState), then onUpdate.                                     *)
UpdateConsumers(cs, c, next) ==
    IF cs[c].hook = "useSubscribe"
    THEN OnUpdate([cs EXCEPT ![c].result = IF cs[c].unmounted THEN @ ELSE next], c)
    ELSE OnUpdate(Notify(cs, cs[c].name, next), c)

UpdateStore(st, cs, c, next) ==
    IF cs[c].hook = "useSubscribe" THEN st ELSE StoreSet(st, cs[c].name, next)

(* useQuery (101-144): the render, then the effect (132-141):              *)
(*   doFetch(options); fetcher.set(fetcherName, { refetch })               *)
QueryInitialState(c) == State(TRUE, InitialData(c), Undefined)

(* fetcher.set(name, item): the item replaces whatever the registry held   *)
(* under the name.                                                         *)
FetcherSet(f, name, item) == [f EXCEPT ![name] = item]

RegisterRefetchUnderInput(f, input, name, c) == FetcherSet(f, input, c)

(* fetcher.set(fetcherName, { refetch }) (136) *)
RegisterRefetch(f, input, name, c) == FetcherSet(f, name, c)

MountQuery(max, input, key) ==
    LET c == Len(consumers) + 1
        name == FetcherName(key, input)
        st == GetOrInit(store, name, QueryInitialState(c))
    IN /\ Len(consumers) < MaxConsumers
       /\ store' = st
       /\ consumers' = Append(consumers, NewConsumer("useQuery", input, key, name, st[name]))
       /\ StartRun(max, "query", c, "mount")
       /\ fetcher' = RegisterRefetch(fetcher, input, name, c)
       /\ UNCHANGED <<client, middleware, channel>>

(* The effect's cleanup (138-140, 245-247): unmounted = true.              *)
Unmount(c) ==
    /\ c \in 1..Len(consumers)
    /\ consumers[c].hook \in {"useQuery", "useSubscribe"}
    /\ ~consumers[c].unmounted
    /\ consumers' = [consumers EXCEPT ![c].unmounted = TRUE, ![c].result = NotRendered]
    /\ UNCHANGED <<client, middleware, ctx, runs, store, fetcher, channel>>

(* What the promise of refetch settles with (114-130).  doFetch returns    *)
(* nothing if the instance is unmounted (115); otherwise it returns the    *)
(* data the query call resolved with (120) or, from its catch, the error   *)
(* the call rejected with (123); refetch awaits and returns that value.    *)
DoFetchRethrows(res) == res

DoFetchReturn(res) == <<"resolved", res[2]>>

DoFetchUnmounted == <<"resolved", Undefined>>

RefetchCall(c, id, res) ==
    [NoRun EXCEPT !.id = id, !.kind = "query", !.owner = c, !.origin = "refetch",
                  !.pc = "done", !.result = res]

(* fetcher.get(name).refetch(opt), called by the application (127-130):    *)
(* doFetch returns at once if the instance is unmounted (115).             *)
RefetchUnguarded(max, name) ==
    /\ fetcher[name] # 0
    /\ StartRun(max, "query", fetcher[name], "refetch")
    /\ UNCHANGED <<client, middleware, hooks, channel>>

Refetch(max, name) ==
    /\ fetcher[name] # 0
    /\ IF consumers[fetcher[name]].unmounted
       THEN /\ UNCHANGED <<ctx, ops, started>>
            /\ last' = RefetchCall(fetcher[name], 0, DoFetchUnmounted)
       ELSE StartRun(max, "query", fetcher[name], "refetch")
    /\ UNCHANGED <<client, middleware, hooks, channel>>

(* useMutate (146-176): the render. *)
MutateInitialState(c) == State(FALSE, InitialData(c), Undefined)

MountMutate(input, key) ==
    LET c == Len(consumers) + 1
        name == FetcherName(key, input)
        st == GetOrInit(store, name, MutateInitialState(c))
    IN /\ Len(consumers) < MaxConsumers
       /\ store' = st
       /\ consumers' = Append(consumers, NewConsumer("useMutate", input, key, name, st[name]))
       /\ UNCHANGED <<client, middleware, ctx, runs, fetcher, channel>>

(* mutate(variables, opt) (168-171):                                       *)
(*   update({ loading: true }); doFetch({ ...opt, variables })             *)
(* and nothing is returned.                                                *)
MutateLoading == State(TRUE, Undefined, Undefined)

Mutate(max, c) ==
    /\ c \in 1..Len(consumers)
    /\ consumers[c].hook = "useMutate"
    /\ consumers' = UpdateConsumers(consumers, c, MutateLoading)
    /\ store' = UpdateStore(store, consumers, c, MutateLoading)
    /\ StartRun(max, "query", c, "mutate")
    /\ UNCHANGED <<client, middleware, fetcher, channel>>

(* useSubscribe (178-251): the render, then the effect (242-248):          *)
(*   if (initialQuery) initQuery(); initSubscribe()                        *)
(* initSubscribe calls this.subscriptionClient.request(...).subscribe;     *)
(* on a Client without a subscription client that call throws inside the   *)
(* async function and nothing is requested.                                *)
SubscribeInitialState == State(TRUE, Undefined, Undefined)

MountSubscribe(max, input, initialQuery) ==
    LET c == Len(consumers) + 1
        new == NewConsumer("useSubscribe", input, NoKey, input, SubscribeInitialState)
        on == subscriptionClient # NULL_AS
    IN /\ Len(consumers) < MaxConsumers
       /\ consumers' = Append(consumers, [new EXCEPT !.sub = IF on THEN "active" ELSE "none"])
       /\ requests' = IF on THEN requests + 1 ELSE requests
       /\ IF initialQuery
          THEN StartRun(max, "query", c, "initQuery")
          ELSE UNCHANGED <<ctx, runs>>
       /\ UNCHANGED <<client, middleware, store, fetcher, raw>>

(* The channel delivers a next event to the observer of instance c         *)
(* (218-225), or an error event (226-235), which ends the subscription.    *)
ChannelNext(max, c) ==
    /\ c \in 1..Len(consumers)
    /\ consumers[c].sub = "active"
    /\ StartRun(max, "next", c, "event")
    /\ UNCHANGED <<client, middleware, hooks, channel>>

ChannelError(max, c) ==
    /\ c \in 1..Len(consumers)
    /\ consumers[c].sub = "active"
    /\ StartRun(max, "error", c, "event")
    /\ consumers' = [consumers EXCEPT ![c].sub = "closed"]
    /\ UNCHANGED <<client, middleware, store, fetcher, channel>>

(* What the caller of a run does when the run's promise has settled.       *)
(*  doFetch / initQuery (117-124, 158-165, 194-203):                       *)
(*    update({ loading: false, data }) or update({ loading: false, error })*)
(*  the observer of useSubscribe (222-224, 232-234): only if the chain     *)
(*    did not reject, update({ loading: false, data: this.ctx.body }) or   *)
(*    update({ loading: false, error: this.ctx.body })                     *)
SettledSwapped(res) ==
    IF res[1] = "resolved" THEN State(FALSE, Undefined, res[2])
    ELSE State(FALSE, res[2], Undefined)

Settled(res) ==
    IF res[1] = "resolved" THEN State(FALSE, res[2], Undefined)
    ELSE State(FALSE, Undefined, res[2])

Remove(list, i) == SubSeq(list, 1, i - 1) \o SubSeq(list, i + 1, Len(list))

Updates(o) == o.owner # 0 /\ (o.kind = "query" \/ o.thrown = Undefined)

Continuation(o, c) ==
    CASE o.kind = "query" -> Settled(QueryReturn(o, c))
      [] o.kind = "next" -> State(FALSE, c.body, Undefined)
      [] o.kind = "error" -> State(FALSE, Undefined, c.body)

(* The caller of run o, at position i of ops, is resumed with the Context  *)
(* as c: the result of a query call is decided, and the hook instance that *)
(* made the call publishes it.                                             *)
Resumed(i, o, c) ==
    /\ ops' = Remove(ops, i)
    /\ last' = IF o.owner = 0
               THEN [o EXCEPT !.pc = "done", !.result = QueryReturn(o, c)]
               ELSE IF o.origin = "refetch"
               THEN RefetchCall(o.owner, o.id, DoFetchReturn(QueryReturn(o, c)))
               ELSE last
    /\ IF ~Updates(o)
       THEN UNCHANGED <<consumers, store>>
       ELSE /\ consumers' = UpdateConsumers(consumers, o.owner, Continuation(o, c))
            /\ store' = UpdateStore(store, consumers, o.owner, Continuation(o, c))

Finish(i) ==
    /\ i \in 1..Len(ops)
    /\ ops[i].pc = "out"
    /\ ops[i].idx = 0
    /\ Resumed(i, ops[i], ctx)
    /\ UNCHANGED <<client, middleware, ctx, started, fetcher, channel>>

(* With no middleware, and a transport that settles its calls one per turn *)
(* of the event loop, nothing runs between the transport's settling and    *)
(* the caller's continuation: TransportSettle, then Finish, as one step.   *)
Settled1(o, ok) ==
    [o EXCEPT !.pc = "out", !.idx = 0,
              !.outcome = IF ok THEN Data(o.id) ELSE Err(o.id)]

Complete(i, ok) ==
    /\ i \in 1..Len(ops)
    /\ ops[i].pc = "transport"
    /\ ops[i].chain = <<>>
    /\ ctx' = ActionSettles(ctx, ops[i].id, ok)
    /\ Resumed(i, Settled1(ops[i], ok), ActionSettles(ctx, ops[i].id, ok))
    /\ UNCHANGED <<client, middleware, started, fetcher, channel>>

(***************************************************************************)
(* fromSubscription (253-283).  A call either throws or returns an object  *)
(* with subscribe(observer); subscribe builds the observer ob it hands to  *)
(* the channel from the callbacks the caller supplied (262-271) and makes  *)
(* the request (273-280).                                                  *)
(*  outcome     "threw" | "returned"                                       *)
(*  subscribed  subscribe has been called on the returned object           *)
(*  ob          the callbacks attached to the channel subscription         *)
(*  delivered   the kinds of event the channel has delivered to it         *)
(*  invoked     the kinds of event for which a callback of the caller ran  *)
(*  ended       the subscription has ended: an error or a complete event   *)
(*              was delivered                                              *)
(***************************************************************************)
Observers == [next : BOOLEAN, error : BOOLEAN, complete : BOOLEAN]
NoObserver == [next |-> FALSE, error |-> FALSE, complete |-> FALSE]

FromSubscriptionUnguarded(sc) == "returned"

FromSubscriptionOutcome(sc) == IF sc = NULL_AS THEN "threw" ELSE "returned"

FromSubscription ==
    /\ Len(raw) < MaxRaw
    /\ raw' = Append(raw, [outcome |-> FromSubscriptionOutcome(subscriptionClient),
                           subscribed |-> FALSE, observer |-> NoObserver,
                           ob |-> NoObserver, delivered |-> {}, invoked |-> {},
                           ended |-> FALSE])
    /\ UNCHANGED <<client, middleware, ctx, runs, hooks, requests>>

Ob(observer) ==
    [next |-> observer.next,
     error |-> observer.error,
     complete |-> observer.error /\ observer.complete]

(* subscribe(observer) on a Client whose subscriptionClient is null throws *)
(* at this.subscriptionClient.request and requests nothing.                *)
RawSubscribe(r, observer) ==
    /\ r \in 1..Len(raw)
    /\ raw[r].outcome = "returned"
    /\ ~raw[r].subscribed
    /\ raw' = [raw EXCEPT ![r].subscribed = TRUE, ![r].observer = observer,
                          ![r].ob = IF subscriptionClient = NULL_AS THEN NoObserver
                                    ELSE Ob(observer)]
    /\ requests' = IF subscriptionClient = NULL_AS THEN requests ELSE requests + 1
    /\ UNCHANGED <<client, middleware, ctx, runs, hooks>>

(* The channel delivers an event to the subscription made by call r: the  *)
(* channel's observable calls ob.next, ob.error or ob.complete if ob has   *)
(* it, and ob.next calls the caller's next (265-267).  No pipeline is run. *)
Events == {"next", "error", "complete"}

RawEvent(r, ev) ==
    /\ r \in 1..Len(raw)
    /\ raw[r].subscribed
    /\ ~raw[r].ended
    /\ subscriptionClient # NULL_AS
    /\ raw' = [raw EXCEPT ![r].delivered = @ \cup {ev},
                          ![r].invoked = IF raw[r].ob[ev] THEN @ \cup {ev} ELSE @,
                          ![r].ended = (ev # "next")]
    /\ UNCHANGED <<client, middleware, ctx, runs, hooks, requests>>

NextClient ==
    \/ \E kind \in {"pass", "defer", "throw"} : ApplyMiddleware(kind)
    \/ Query(MaxRuns)
    \/ \E i \in 1..MaxRuns : Resume(i)
    \/ \E i \in 1..MaxRuns : TransportSettle(i, TRUE)
    \/ \E i \in 1..MaxRuns : TransportSettle(i, FALSE)
    \/ \E i \in 1..MaxRuns : StepOut(i)
    \/ \E i \in 1..MaxRuns : Finish(i)

SpecClient == Init /\ [][NextClient]_vars

(* query on a Client with middleware stages that call next, some of which  *)
(* recover after it.                                                       *)
NextRecover ==
    \/ \E kind \in {"pass", "recover"} : ApplyMiddleware(kind)
    \/ Query(MaxRuns)
    \/ \E i \in 1..MaxRuns : TransportSettle(i, TRUE)
    \/ \E i \in 1..MaxRuns : TransportSettle(i, FALSE)
    \/ \E i \in 1..MaxRuns : StepOut(i)
    \/ \E i \in 1..MaxRuns : Finish(i)

SpecRecover == Init /\ [][NextRecover]_vars

(* The transport and the callers' continuations, for at most max runs. *)
Transport(max) ==
    \/ \E i \in 1..max : Complete(i, TRUE)
    \/ \E i \in 1..max : Complete(i, FALSE)

(* useQuery on a Client without middleware. *)
NextQuery ==
    \/ \E key \in Keys : MountQuery(MaxOps, "q1", key)
    \/ \E c \in 1..MaxConsumers : Unmount(c)
    \/ \E name \in Names : Refetch(MaxOps, name)
    \/ Transport(MaxOps)

SpecQuery == Init /\ [][NextQuery]_vars

(* useQuery and refetch on a Client with middleware stages that call next *)
(* or throw before calling it.                                             *)
NextRefetch ==
    \/ \E kind \in {"pass", "throw"} : ApplyMiddleware(kind)
    \/ MountQuery(MaxRuns, "q1", NoKey)
    \/ Refetch(MaxRuns, "q1")
    \/ \E i \in 1..MaxRuns : TransportSettle(i, TRUE)
    \/ \E i \in 1..MaxRuns : TransportSettle(i, FALSE)
    \/ \E i \in 1..MaxRuns : StepOut(i)
    \/ \E i \in 1..MaxRuns : Finish(i)

SpecRefetch == Init /\ [][NextRefetch]_vars

(* useMutate on a Client without middleware. *)
NextMutate ==
    \/ \E key \in Keys : MountMutate("q1", key)
    \/ \E c \in 1..MaxConsumers : Mutate(MaxOps, c)
    \/ Transport(MaxOps)

SpecMutate == Init /\ [][NextMutate]_vars

(* useQuery and useMutate together. *)
NextShared ==
    \/ \E input \in Inputs, key \in Keys : MountQuery(MaxRuns, input, key)
    \/ \E input \in Inputs, key \in Keys : MountMutate(input, key)
    \/ \E c \in 1..MaxConsumers : Unmount(c)
    \/ \E c \in 1..MaxConsumers : Mutate(MaxRuns, c)
    \/ Transport(MaxRuns)

SpecShared == Init /\ [][NextShared]_vars

(* The constructor with any options, config and fromSubscription. *)
NextRaw ==
    \/ \E opt \in GraphqlOptions : Config(opt)
    \/ FromSubscription
    \/ \E r \in 1..MaxRaw, observer \in Observers : RawSubscribe(r, observer)

SpecRaw == InitAny /\ [][NextRaw]_vars

(* useQuery and useMutate on a Client with middleware stages that call    *)
(* next or throw before calling it, and a transport that answers every     *)
(* call: the only failures are those of the stages.                        *)
NextFailure ==
    \/ \E kind \in {"pass", "throw"} : ApplyMiddleware(kind)
    \/ MountQuery(MaxRuns, "q1", NoKey)
    \/ MountMutate("q2", NoKey)
    \/ \E c \in 1..MaxConsumers : Mutate(MaxRuns, c)
    \/ \E i \in 1..MaxRuns : TransportSettle(i, TRUE)
    \/ \E i \in 1..MaxRuns : StepOut(i)
    \/ \E i \in 1..MaxRuns : Finish(i)

SpecFailure == Init /\ [][NextFailure]_vars

(* useSubscribe and query on a Client constructed with a                  *)
(* subscriptionsEndpoint, without middleware, and a transport that answers *)
(* every call: the only errors are those of the channel.                   *)
NextChannelError ==
    \/ \E initialQuery \in BOOLEAN : MountSubscribe(MaxRuns, "q1", initialQuery)
    \/ Query(MaxRuns)
    \/ \E c \in 1..MaxConsumers : ChannelNext(MaxRuns, c)
    \/ \E c \in 1..MaxConsumers : ChannelError(MaxRuns, c)
    \/ \E i \in 1..MaxRuns : Finish(i)
    \/ \E i \in 1..MaxRuns : Complete(i, TRUE)

SpecChannelError == InitSubscribed /\ [][NextChannelError]_vars

(* The raw observer form on a Client constructed with a                   *)
(* subscriptionsEndpoint.                                                  *)
NextObserver ==
    \/ \E kind \in {"pass", "defer"} : ApplyMiddleware(kind)
    \/ FromSubscription
    \/ \E r \in 1..MaxRaw, observer \in Observers : RawSubscribe(r, observer)
    \/ \E r \in 1..MaxRaw, ev \in Events : RawEvent(r, ev)

SpecObserver == InitSubscribed /\ [][NextObserver]_vars

(* useSubscribe on a Client without middleware, constructed with any       *)
(* options.                                                                *)
NextSubscribe ==
    \/ \E initialQuery \in BOOLEAN : MountSubscribe(MaxRuns, "q1", initialQuery)
    \/ \E c \in 1..MaxConsumers : Unmount(c)
    \/ \E c \in 1..MaxConsumers : ChannelNext(MaxRuns, c)
    \/ \E c \in 1..MaxConsumers : ChannelError(MaxRuns, c)
    \/ \E i \in 1..MaxRuns : Finish(i)
    \/ Transport(MaxRuns)

SpecSubscribe == InitAny /\ [][NextSubscribe]_vars

(* useSubscribe on a Client constructed with a subscriptionsEndpoint, with *)
(* middleware stages that call next, at once or after an await of their    *)
(* own.                                                                    *)
NextEvents ==
    \/ \E kind \in {"pass", "defer"} : ApplyMiddleware(kind)
    \/ \E initialQuery \in BOOLEAN : MountSubscribe(MaxRuns, "q1", initialQuery)
    \/ \E c \in 1..MaxConsumers : ChannelNext(MaxRuns, c)
    \/ \E i \in 1..MaxRuns : Resume(i)
    \/ \E i \in 1..MaxRuns : TransportSettle(i, TRUE)
    \/ \E i \in 1..MaxRuns : TransportSettle(i, FALSE)
    \/ \E i \in 1..MaxRuns : StepOut(i)
    \/ \E i \in 1..MaxRuns : Finish(i)

SpecEvents == InitSubscribed /\ [][NextEvents]_vars

(***************************************************************************)
(* Properties.                                                             *)
(***************************************************************************)
AllCallNext(chain) == \A k \in 1..Len(chain) : CallsNext(chain[k].kind)

Own(o) ==
    IF o.outcome = Data(o.id) THEN <<"resolved", Data(o.id)>>
    ELSE <<"rejected", Err(o.id)>>

Returned == last.id # 0

IsPrefix(p, q) == Len(p) <= Len(q) /\ p = SubSeq(q, 1, Len(p))

(* C1: a query call made with no middleware registered and with no other   *)
(* run in flight at any time during it, after any earlier operations,      *)
(* resolves with the value its transport call returned, or rejects with    *)
(* the error its transport call threw.                                     *)
C1_QueryReturnsItsOutcome ==
    (Returned /\ last.chain = <<>> /\ last.alone) => last.result = Own(last)

(* C2: a query call that was in flight together with another run (all      *)
(* stages of its chain calling next) resolves with the result of its own   *)
(* transport call, or rejects with its own transport error.                *)
C2_PerCallIsolation ==
    (Returned /\ ~last.alone /\ AllCallNext(last.chain)) => last.result = Own(last)

(* C3: a run whose n stages each call next enters them in the order of     *)
(* their registration, then runs the terminal action, then resumes them in *)
(* the reverse order; its promise settles only after the first stage's     *)
(* after-next code has run.                                                *)
Onion(n) ==
    [k \in 1..(2 * n + 1) |->
        IF k <= n THEN <<"in", k>>
        ELSE IF k = n + 1 THEN <<"action", 0>>
        ELSE <<"out", 2 * n + 2 - k>>]

C3_OnionOrder ==
    /\ \A j \in 1..Len(ops) :
          AllCallNext(ops[j].chain) =>
             /\ IsPrefix(ops[j].trace, Onion(Len(ops[j].chain)))
             /\ (ops[j].pc = "out" /\ ops[j].idx = 0) =>
                    ops[j].trace = Onion(Len(ops[j].chain))
    /\ (Returned /\ AllCallNext(last.chain)) => last.trace = Onion(Len(last.chain))

C3_Witness ==
    /\ Returned
    /\ Len(last.chain) = MaxStages
    /\ MaxStages >= 2
    /\ AllCallNext(last.chain)
    /\ \E k \in 1..Len(last.chain) : last.chain[k].kind = "defer"
    /\ ~last.alone

(* C4 as claimed: every query call makes exactly one transport call,       *)
(* whatever stages are registered.                                         *)
C4_ExactlyOneTransportCall == Returned => last.calls = 1

(* C4 as amended: a query call makes at most one transport call: exactly   *)
(* one if every stage of its chain calls next, none if a stage throws      *)
(* before calling next; a failed transport call is not repeated.           *)
C4_AtMostOneTransportCall ==
    /\ \A j \in 1..Len(ops) : ops[j].calls <= 1
    /\ Returned => last.calls = (IF AllCallNext(last.chain) THEN 1 ELSE 0)
    /\ (Returned /\ last.outcome = Err(last.id)) => last.calls = 1

C4_Witness ==
    /\ Returned
    /\ last.chain # <<>>
    /\ last.outcome = Err(last.id)
    /\ last.calls = 1

(* The key of a hook instance: the key option, else the operation text.    *)
KeyOf(c) == IF c.key # NoKey THEN c.key ELSE c.input

Ids(list) == {list[j].id : j \in 1..Len(list)}

(* Run j of ops is resumed in this step; a run is started in this step.    *)
Completes(j) == ops[j].id \notin Ids(ops')
Starts == started' = started + 1
Newest == ops'[Len(ops')]
Mounts == Len(consumers') = Len(consumers) + 1
Mounted(hook) == Mounts /\ consumers'[Len(consumers')].hook = hook

(* C5: no update is published by a useQuery instance after its cleanup has *)
(* run.                                                                    *)
C5_NoUpdateAfterUnmount == \A c \in 1..Len(consumers) : consumers[c].late = 0

(* C6: when the trigger of useMutate returns, the state of the key has     *)
(* loading = true; and when the last unresolved mutation of a key settles, *)
(* having been in flight together with another, the state of the key is    *)
(* { loading: false, data } with the data its own transport call returned, *)
(* or { loading: false, error } with the error its own call threw.         *)
C6_Step ==
    /\ (Starts /\ Newest.origin = "mutate") =>
          store'[consumers'[Newest.owner].name].loading
    /\ \A j \in 1..Len(ops) :
          LET o == ops[j]
              name == consumers[o.owner].name
          IN (/\ Completes(j)
              /\ o.origin = "mutate"
              /\ ~o.alone
              /\ \A k \in 1..Len(ops') : consumers[ops'[k].owner].name # name)
             => store'[name] \in {State(FALSE, Data(o.id), Undefined),
                                  State(FALSE, Undefined, Err(o.id))}

C6_MutateLastWriteWins == [][C6_Step]_vars

(* C7 as claimed: the state of the key of a useQuery instance starts as    *)
(* { loading: true, data: initialData }; the mount issues a query; when    *)
(* that query settles the state becomes { loading: false, data } or        *)
(* { loading: false, error }; and loading is not false while the mount's   *)
(* query is in flight.                                                     *)
SettledState(c) ==
    IF c.valid THEN State(FALSE, c.body, Undefined)
    ELSE State(FALSE, Undefined, c.body)

MountIssuesQuery ==
    Mounted("useQuery") =>
        /\ Starts
        /\ Newest.owner = Len(consumers')
        /\ Newest.origin = "mount"
        /\ Newest.calls = 1

MountQuerySettles ==
    \A j \in 1..Len(ops) :
        (Completes(j) /\ ops[j].origin = "mount")
           => store'[consumers[ops[j].owner].name] = SettledState(ctx')

C7_Step ==
    /\ Mounted("useQuery") =>
          LET c == Len(consumers')
          IN /\ store'[consumers'[c].name] = State(TRUE, InitialData(c), Undefined)
             /\ consumers'[c].result = State(TRUE, InitialData(c), Undefined)
    /\ MountIssuesQuery
    /\ MountQuerySettles
    /\ \A k \in 1..Len(ops') :
          ops'[k].origin = "mount" => store'[consumers'[ops'[k].owner].name].loading

C7_UseQueryLifecycle == [][C7_Step]_vars

(* C7 as amended: the state of the key starts as { loading: true, data:    *)
(* initialData } if the key has no entry when the instance mounts, and the *)
(* instance starts with the current state of the entry otherwise; the      *)
(* mount issues a query; when that query settles the state becomes         *)
(* { loading: false, data } if the call resolved, { loading: false, error }*)
(* if it rejected; and the state of a key goes from loading = true to      *)
(* loading = false only when a query issued for that key settles.          *)
C7_StepAmended ==
    /\ Mounted("useQuery") =>
          LET c == Len(consumers')
              name == consumers'[c].name
          IN /\ ~Has(store, name) => store'[name] = State(TRUE, InitialData(c), Undefined)
             /\ Has(store, name) => store'[name] = store[name]
             /\ consumers'[c].result = store'[name]
    /\ MountIssuesQuery
    /\ MountQuerySettles
    /\ \A name \in DOMAIN store :
          (store[name].loading /\ ~store'[name].loading) =>
              \E j \in 1..Len(ops) :
                  Completes(j) /\ consumers[ops[j].owner].name = name

C7_UseQueryLifecycleAmended == [][C7_StepAmended]_vars

C7_Witness ==
    /\ Len(consumers) = 1
    /\ consumers[1].hook = "useQuery"
    /\ started = 1
    /\ ops = <<>>
    /\ store[consumers[1].name] = State(FALSE, Undefined, Err(1))

(* C8: the useQuery and useMutate instances that have the same key (the    *)
(* key option, else the operation text) read one state: each mounted one   *)
(* renders the state of the key's entry, so what one publishes is what the *)
(* others read; and a step changes the state of a key only if an instance  *)
(* of that key mounts, calls or is resumed in it.                          *)
Reads(c) == c.hook \in {"useQuery", "useMutate"} /\ ~c.unmounted

C8_OneState ==
    \A c \in 1..Len(consumers) :
        Reads(consumers[c]) =>
            /\ Has(store, KeyOf(consumers[c]))
            /\ consumers[c].result = store[KeyOf(consumers[c])]

Acts(c) ==
    \/ c > Len(consumers)
    \/ Starts /\ Newest.owner = c
    \/ \E j \in 1..Len(ops) : Completes(j) /\ ops[j].owner = c

C8_Step ==
    \A name \in DOMAIN store' :
        (~Has(store, name) \/ store'[name] # store[name]) =>
            \E c \in 1..Len(consumers') : KeyOf(consumers'[c]) = name /\ Acts(c)

C8_SharedByKey == []C8_OneState /\ [][C8_Step]_vars

C8_Witness ==
    \E c, d \in 1..Len(consumers) :
        /\ c # d
        /\ Reads(consumers[c]) /\ Reads(consumers[d])
        /\ consumers[c].input # consumers[d].input
        /\ consumers[c].hook # consumers[d].hook
        /\ KeyOf(consumers[c]) = KeyOf(consumers[d])
        /\ \E i \in 1..MaxRuns : consumers[d].result = State(FALSE, Data(i), Undefined)

(* C9: the handle registered for a key is the refetch of the useQuery      *)
(* instance of that key that mounted last, and a refetch call through the  *)
(* registry starts a fetch of that instance only.                          *)
MostRecent(name) ==
    LET of == {c \in 1..Len(consumers) :
                  consumers[c].hook = "useQuery" /\ KeyOf(consumers[c]) = name}
    IN IF of = {} THEN 0 ELSE CHOOSE c \in of : \A d \in of : d <= c

C9_LatestHandle == \A name \in Names : fetcher[name] = MostRecent(name)

C9_Step ==
    (Starts /\ Newest.origin = "refetch") =>
        /\ Newest.owner = MostRecent(KeyOf(consumers[Newest.owner]))
        /\ Len(ops') = Len(ops) + 1
        /\ \A j \in 1..Len(ops) : ops'[j].id = ops[j].id

C9_RefetchRegistry == []C9_LatestHandle /\ [][C9_Step]_vars

C9_Witness ==
    /\ Len(consumers) = 2
    /\ KeyOf(consumers[1]) = "k1" /\ KeyOf(consumers[2]) = "k1"
    /\ \E j \in 1..Len(ops) : ops[j].origin = "refetch" /\ ops[j].owner = 2

(* C10: fromSubscription on a Client without a subscription client throws, *)
(* returns no object to subscribe on, and requests nothing of the channel. *)
C10_FromSubscriptionNeedsEndpoint ==
    /\ subscriptionClient = NULL_AS =>
          /\ requests = 0
          /\ \A r \in 1..Len(raw) : raw[r].outcome = "threw"
    /\ \A r \in 1..Len(raw) :
          raw[r].outcome = "threw" => ~raw[r].subscribed /\ raw[r].ob = NoObserver

C10_Witness ==
    /\ subscriptionClient = NULL_AS
    /\ Len(raw) = MaxRaw
    /\ \A r \in 1..Len(raw) : raw[r].outcome = "threw"

(* C11: a config call replaces both transports: after config(opt) the query  *)
(* transport and the subscription transport are those opt describes, and   *)
(* if opt supplies no subscriptionsEndpoint there is no subscription       *)
(* transport and fromSubscription throws.                                  *)
DescribedSubscriptionClient(opt) ==
    IF opt.subscriptionsEndpoint # NoEndpoint
    THEN SubscriptionClient(opt.subscriptionsEndpoint) ELSE NULL_AS

C11_Step ==
    \A opt \in GraphqlOptions :
        Config(opt) =>
            /\ graphqlClient' = GraphQLClient(opt.endpoint)
            /\ subscriptionClient' = DescribedSubscriptionClient(opt)
            /\ opt.subscriptionsEndpoint = NoEndpoint =>
                   FromSubscriptionOutcome(subscriptionClient') = "threw"

C11_ConfigReplacesTransports == [][C11_Step]_vars

(* C12: when the run of a next event of a mounted useSubscribe instance      *)
(* completes, the instance's state becomes { loading: false, data } with   *)
(* the payload of that event, and no earlier event of the instance is      *)
(* still waiting to be published: one update per event, in the order of    *)
(* the events.                                                             *)
Payload(o) == <<"event", o.id>>

C12_Step ==
    \A j \in 1..Len(ops) :
        LET o == ops[j] IN
        (Completes(j) /\ o.kind = "next" /\ ~consumers[o.owner].unmounted) =>
            /\ consumers'[o.owner].result = State(FALSE, Payload(o), Undefined)
            /\ \A k \in 1..Len(ops') :
                  ~(ops'[k].kind = "next" /\ ops'[k].owner = o.owner /\ ops'[k].id < o.id)

C12_EveryEventPublishedInOrder == [][C12_Step]_vars

(* C13: in the raw observer form every callback the caller supplied is      *)
(* attached to the subscription, whichever of the others are supplied, and *)
(* has been invoked for every kind of event delivered; and the delivery of *)
(* an event starts no pipeline run and leaves the Context unchanged.       *)
C13_Attached ==
    \A r \in 1..Len(raw) :
        raw[r].subscribed =>
            /\ raw[r].ob = raw[r].observer
            /\ \A ev \in raw[r].delivered : raw[r].observer[ev] => ev \in raw[r].invoked

C13_Step ==
    \A r \in 1..Len(raw), ev \in Events :
        RawEvent(r, ev) => ctx' = ctx /\ started' = started /\ ops' = ops

C13_RawCallbacksIndependent == []C13_Attached /\ [][C13_Step]_vars

(* C14: once the state of a mounted useSubscribe instance carries an error,  *)
(* every later state of the instance carries an error.                     *)
HasError(st) == st.error # Undefined

C14_Step ==
    \A c \in 1..Len(consumers) :
        (/\ consumers[c].hook = "useSubscribe"
         /\ ~consumers'[c].unmounted
         /\ HasError(consumers[c].result)) => HasError(consumers'[c].result)

C14_ErrorPersists == [][C14_Step]_vars

(* C15: the Context's valid flag is true when a pipeline run starts, however *)
(* the earlier runs ended; and while runs go on, a valid flag that is      *)
(* false stays false, no stage of these chains setting it back to true.    *)
C15_Step ==
    /\ Starts => ctx.valid
    /\ (~ctx.valid /\ ~Starts) => ~ctx'.valid

C15_ValidAtStart == [][C15_Step]_vars

(* C16: a run with a stage that throws before calling next enters the       *)
(* stages up to that stage and nothing after it: no later stage, no        *)
(* terminal action, no transport call; the query call rejects with that    *)
(* stage's error; and the useQuery or useMutate instance that made the     *)
(* call publishes { loading: false, error } with that error.               *)
FirstThrow(chain) ==
    CHOOSE k \in 1..Len(chain) :
        /\ chain[k].kind = "throw"
        /\ \A m \in 1..(k - 1) : chain[m].kind # "throw"

Entered(chain) == [k \in 1..FirstThrow(chain) |-> <<"in", chain[k].id>>]

ShortCircuited(o) ==
    /\ o.calls = 0
    /\ o.trace = Entered(o.chain)
    /\ o.thrown = StageErr(o.chain[FirstThrow(o.chain)].id)

C16_Rejects ==
    \A j \in 1..Len(ops) : ~AllCallNext(ops[j].chain) => ShortCircuited(ops[j])

C16_Step ==
    \A j \in 1..Len(ops) :
        LET o == ops[j] IN
        (Completes(j) /\ o.owner # 0 /\ ~AllCallNext(o.chain)) =>
            store'[consumers[o.owner].name] = State(FALSE, Undefined, o.thrown)

C16_ThrowShortCircuits == []C16_Rejects /\ [][C16_Step]_vars

C16_Witness ==
    /\ Len(middleware) = 2
    /\ middleware[1].kind = "pass"
    /\ ops = <<>>
    /\ \E c, d \in 1..Len(consumers) :
          /\ consumers[c].hook = "useQuery"
          /\ consumers[d].hook = "useMutate"
          /\ store[consumers[c].name] = State(FALSE, Undefined, StageErr(2))
          /\ store[consumers[d].name] = State(FALSE, Undefined, StageErr(2))

(* C17: the run of an error event stores the error in ctx.body and sets     *)
(* ctx.valid to false; when it completes, the mounted instance's state     *)
(* becomes { loading: false, error } with the error of that event; and     *)
(* every query call, its transport call answered, resolves with that       *)
(* answer whatever error events the channel delivered.                     *)
ChannelErr(o) == <<"channel-error", o.id>>

C17_Step ==
    /\ (Starts /\ Newest.kind = "error") =>
          ctx' = [ctx EXCEPT !.body = ChannelErr(Newest), !.valid = FALSE]
    /\ \A j \in 1..Len(ops) :
          LET o == ops[j] IN
          /\ (Completes(j) /\ o.kind = "error" /\ ~consumers[o.owner].unmounted) =>
                consumers'[o.owner].result = State(FALSE, Undefined, ChannelErr(o))
          /\ (Completes(j) /\ o.kind = "query" /\ o.owner = 0) =>
                last'.result = <<"resolved", Data(o.id)>>
          /\ (Completes(j) /\ o.kind = "query" /\ o.owner # 0) =>
                consumers'[o.owner].result = State(FALSE, Data(o.id), Undefined)

C17_ErrorEventPublished == [][C17_Step]_vars

(* C18: when the after-next code of a recovering stage runs with ctx.valid  *)
(* false it leaves ctx.valid true and ctx.body the substitute; and a query *)
(* call whose transport call threw, no other run being in flight during    *)
(* it, resolves with the substitute if its chain has a recovering stage    *)
(* and rejects with the transport's error if it has none.                  *)
Recovers(chain) == \E k \in 1..Len(chain) : chain[k].kind = "recover"

C18_Outcome ==
    (Returned /\ last.alone /\ last.outcome = Err(last.id)) =>
        last.result = IF Recovers(last.chain) THEN <<"resolved", Substitute>>
                      ELSE <<"rejected", Err(last.id)>>

C18_Step ==
    \A j \in 1..Len(ops) :
        LET o == ops[j] IN
        (/\ o.pc = "out" /\ o.idx >= 1 /\ o.thrown = Undefined
         /\ o.chain[o.idx].kind = "recover"
         /\ j <= Len(ops') /\ ops'[j].id = o.id /\ ops'[j].idx = o.idx - 1
         /\ ~ctx.valid) =>
            ctx' = [ctx EXCEPT !.valid = TRUE, !.body = Substitute]

C19_Step ==
    \A j \in 1..Len(ops) :
        LET o == ops[j]
            v == last'.result[2]
            failed == o.thrown # Undefined \/ ~ctx'.valid
        IN (Completes(j) /\ o.origin = "refetch") =>
              /\ last'.origin = "refetch" /\ last'.id = o.id
              /\ last'.result[1] = "resolved"
              /\ v = IF o.thrown # Undefined THEN o.thrown ELSE ctx'.body
              /\ store'[consumers[o.owner].name] =
                    IF failed THEN State(FALSE, Undefined, v)
                    ELSE State(FALSE, v, Undefined)
              /\ (o.alone /\ o.outcome = Err(o.id)) => (failed /\ v = Err(o.id))
              /\ (o.alone /\ o.outcome = Data(o.id)) => v = Data(o.id)

C19_RefetchNeverRejects == [][C19_Step]_vars

C19_Witness ==
    /\ last.origin = "refetch"
    /\ last.result = <<"resolved", Err(last.id)>>
    /\ middleware # <<>>
    /\ ops = <<>>
    /\ store["q1"] = State(FALSE, Undefined, Err(last.id))

(* C20: the cleanup of a useQuery instance leaves the refetch registry as   *)
(* it is, so the handle of its key is still its refetch until a later      *)
(* instance of the key mounts; and a call of the handle of an unmounted    *)
(* instance starts no run, makes no transport call, publishes nothing,     *)
(* leaves every state as it is and resolves with no value.                 *)
C20_StillRegistered ==
    \A c \in 1..Len(consumers) :
        (/\ consumers[c].hook = "useQuery"
         /\ consumers[c].unmounted
         /\ MostRecent(KeyOf(consumers[c])) = c) => fetcher[KeyOf(consumers[c])] = c

C20_Step ==
    /\ (\E c \in 1..Len(consumers) : ~consumers[c].unmounted /\ consumers'[c].unmounted)
          => fetcher' = fetcher
    /\ \A name \in Names :
          (/\ fetcher[name] # 0
           /\ consumers[fetcher[name]].unmounted
           /\ Refetch(MaxOps, name)) =>
              /\ started' = started /\ ops' = ops /\ ctx' = ctx
              /\ store' = store /\ consumers' = consumers /\ fetcher' = fetcher
              /\ last'.owner = fetcher[name]
              /\ last'.result = <<"resolved", Undefined>>

C20_UnmountKeepsHandle == []C20_StillRegistered /\ [][C20_Step]_vars

C20_Witness ==
    /\ Len(consumers) = 2
    /\ KeyOf(consumers[1]) = KeyOf(consumers[2])
    /\ ~consumers[1].unmounted
    /\ consumers[2].unmounted
    /\ fetcher[KeyOf(consumers[2])] = 2
    /\ last.origin = "refetch"
    /\ last.owner = 2
    /\ last.result = <<"resolved", Undefined>>

====
